---- MODULE Spec2Model ----
(***************************************************************************)
(* Model of the Record Service of src/main.py: the Business and Review     *)
(* handlers over a Datastore-like entity store.  A handler is a sequence   *)
(* of storage calls (get, query, put, delete); each action below is the    *)
(* code of one handler from one storage call up to and including the next, *)
(* so concurrent requests interleave between their storage calls.          *)
(***************************************************************************)
EXTENDS Integers, FiniteSets, TLC

VARIABLES
    businesses,   \* kind 'Business': id -> entity (a function over its property names)
    reviews,      \* kind 'Review':   id -> entity
    nextBid,      \* next id the store allocates for a Business key
    nextRid,      \* next id the store allocates for a Review key
    pc,           \* per request slot: the storage call the handler is about to make
    req,          \* per request slot: the request being served (route, id, body)
    entity,       \* per request slot: the entity the handler read (business / review)
    todo,         \* per request slot: delete_business's `reviews` still to delete
    last,         \* the response returned by the step just taken (status 0: none)
    pre,          \* one worker only: the store as it was when the request arrived
    world         \* the deployment and the ids in use; never changes

vars == <<businesses, reviews, nextBid, nextRid, pc, req, entity, todo, last, pre, world>>

----------------------------------------------------------------------------
(* Bounds *)

NumProcs == 2          \* workers of the concurrent server (requests in flight at once)
MaxBusinessId == 2     \* Business ids the store hands out
MaxReviewId == 2       \* Review ids the store hands out
MaxUser == 2           \* user ids appearing in requests
MaxOwner == 2          \* owner ids (and business bodies) appearing in requests

\* One worker (requests are handled one at a time); the reviews of one
\* business by several users.
SerialWorld ==
    [procs |-> 1, users |-> MaxUser, businessIds |-> 1, reviewIds |-> MaxReviewId]

\* One worker; the reviews of several businesses by one user.
BusinessWorld ==
    [procs |-> 1, users |-> 1, businessIds |-> MaxBusinessId, reviewIds |-> MaxReviewId]

\* Several workers, every handler; one business, one user.
ConcurrentWorld ==
    [procs |-> NumProcs, users |-> 1, businessIds |-> 1, reviewIds |-> MaxReviewId]

\* Several workers creating reviews of one business, several users.
RaceWorld ==
    [procs |-> NumProcs, users |-> MaxUser, businessIds |-> 1, reviewIds |-> MaxReviewId]

\* One worker deleting from a store that holds every business and at most one
\* review per (user, business) pair.
FrameWorld ==
    [procs |-> 1, users |-> MaxUser, businessIds |-> MaxBusinessId,
     reviewIds |-> MaxUser * MaxBusinessId]

Procs == 1..world.procs
BusinessIds == 1..world.businessIds
ReviewIds == 1..world.reviewIds
Users == 1..world.users
Owners == 1..MaxOwner
Serial == world.procs = 1
Stars == {4, 5}
Texts == {"", "great"}

----------------------------------------------------------------------------
(* Request bodies *)

BusinessRequired == {"owner_id", "name", "street_address", "city", "state", "zip_code"}
ReviewRequired == {"user_id", "business_id", "stars"}

\* HasAll comparing the keys of the body with the required list
HasAll_exact(content, required) == DOMAIN content = required

\* all(field in content for field in required)
HasAll(content, required) == required \subseteq DOMAIN content

Without(content, f) == [g \in DOMAIN content \ {f} |-> content[g]]

EmptyContent == [f \in {} |-> 0]

\* A complete business body; every property differs between v = 1 and v = 2.
BusinessBody(v) ==
    [owner_id |-> v, name |-> <<"name", v>>, street_address |-> <<"street", v>>,
     city |-> <<"city", v>>, state |-> <<"state", v>>, zip_code |-> <<"zip", v>>]

BusinessContents ==
    {BusinessBody(v) : v \in Owners}
        \cup {Without(BusinessBody(1), f) : f \in BusinessRequired}

ReviewBody(u, b, s) == [user_id |-> u, business_id |-> b, stars |-> s]

WithText(content, t) ==
    [f \in DOMAIN content \cup {"review_text"} |->
        IF f = "review_text" THEN t ELSE content[f]]

FullReviewContents ==
    LET base == {ReviewBody(u, b, s) : u \in Users, b \in BusinessIds, s \in Stars}
    IN  base \cup {WithText(c, t) : c \in base, t \in Texts}

ReviewContents ==
    FullReviewContents
        \cup {Without(WithText(ReviewBody(1, 1, 5), "great"), f) : f \in ReviewRequired}

\* Bodies of PUT /reviews/<id>: stars, optionally review_text, optionally the
\* keys user_id and business_id (naming a user and a business of the world, or
\* another user and another business); and bodies without stars.
EditReviewContents ==
    LET base == {[stars |-> s] : s \in Stars}
        text == base \cup {WithText(c, t) : c \in base, t \in Texts}
    IN  text \cup {[stars |-> 4, user_id |-> u, business_id |-> b] :
                        u \in Users, b \in BusinessIds}
             \cup {[stars |-> 5, user_id |-> MaxUser + 1, business_id |-> MaxBusinessId + 1]}
             \cup {EmptyContent, [review_text |-> "great"]}

----------------------------------------------------------------------------
(* The store *)

NoEntity == [f \in {} |-> 0]

\* client.get(key): the entity, or None
Get(kind, id) == IF id \in DOMAIN kind THEN kind[id] ELSE NoEntity

\* `if not business:` / `if not review:`  (None is falsy)
Missing(e) == DOMAIN e = {}

\* client.put(entity) with a complete key: insert or overwrite
Put(kind, id, e) == [i \in DOMAIN kind \cup {id} |-> IF i = id THEN e ELSE kind[i]]

\* client.delete(key): no error when the key is absent
Delete(kind, id) == [i \in DOMAIN kind \ {id} |-> kind[i]]

\* query.add_filter(field, '=', value); query.fetch()
QueryEqual(kind, field, value) == {i \in DOMAIN kind : kind[i][field] = value}

Store == [businesses |-> businesses, reviews |-> reviews]

EmptyStore == [businesses |-> NoEntity, reviews |-> NoEntity]

----------------------------------------------------------------------------
(* Responses *)

MissingAttributes == "The request body is missing at least one of the required attributes"
NoBusiness == "No business with this business_id exists"
NoReview == "No review with this review_id exists"
AlreadyReviewed == "You have already submitted a review for this business. You can update your previous review, or delete it and submit a new review"

NoReq == [op |-> "none", id |-> 0, content |-> EmptyContent]
NoResp == [status |-> 0, body |-> "", p |-> 0, req |-> NoReq]

Response(p, r, status, body) == [status |-> status, body |-> body, p |-> p, req |-> r]

ErrorBody(msg) == [Error |-> msg]

BusinessResponse(id, e) ==
    [id |-> id, owner_id |-> e.owner_id, name |-> e.name,
     street_address |-> e.street_address, city |-> e.city,
     state |-> e.state, zip_code |-> e.zip_code]

ReviewResponse(id, e) ==
    LET response == [id |-> id, user_id |-> e.user_id,
                     business_id |-> e.business_id, stars |-> e.stars]
    IN  IF "review_text" \in DOMAIN e
        THEN WithText(response, e.review_text)
        ELSE response

----------------------------------------------------------------------------
(* Request life cycle *)

\* A request arrives at an idle worker, once the outcome of the step before
\* has been taken note of; with one worker the store is remembered as it was
\* then.
Arrive(p) ==
    /\ pc[p] = "idle"
    /\ last.p = 0
    /\ pre' = IF Serial THEN Store ELSE pre

\* The handler of worker p is about to make the storage call `label`.
At(p, label) ==
    /\ pc[p] = label
    /\ last.p = 0

\* The handler returns: the slot is idle again and `last` is the response.
Return(p, r, status, body) ==
    /\ pc' = [pc EXCEPT ![p] = "idle"]
    /\ req' = [req EXCEPT ![p] = NoReq]
    /\ entity' = [entity EXCEPT ![p] = NoEntity]
    /\ todo' = [todo EXCEPT ![p] = {}]
    /\ last' = Response(p, r, status, body)

\* The handler goes on to its next storage call.
Goto(p, r, label, e, t) ==
    /\ pc' = [pc EXCEPT ![p] = label]
    /\ req' = [req EXCEPT ![p] = r]
    /\ entity' = [entity EXCEPT ![p] = e]
    /\ todo' = [todo EXCEPT ![p] = t]
    /\ last' = NoResp

Request(op, id, content) == [op |-> op, id |-> id, content |-> content]

----------------------------------------------------------------------------
(* Business handlers *)

\* POST /businesses
create_business(p) ==
    /\ Arrive(p)
    /\ \E content \in BusinessContents :
        LET r == Request("create_business", 0, content) IN
        IF ~HasAll(content, BusinessRequired)
        THEN /\ Return(p, r, 400, ErrorBody(MissingAttributes))
             /\ UNCHANGED <<businesses, reviews, nextBid, nextRid>>
        ELSE LET business == [f \in BusinessRequired |-> content[f]] IN
             /\ nextBid <= world.businessIds
             /\ businesses' = Put(businesses, nextBid, business)
             /\ nextBid' = nextBid + 1
             /\ Return(p, r, 201, BusinessResponse(nextBid, business))
             /\ UNCHANGED <<reviews, nextRid>>
    /\ UNCHANGED world

\* GET /businesses/<business_id>
get_business(p) ==
    /\ Arrive(p)
    /\ \E business_id \in BusinessIds :
        LET r == Request("get_business", business_id, EmptyContent)
            business == Get(businesses, business_id) IN
        IF Missing(business)
        THEN Return(p, r, 404, ErrorBody(NoBusiness))
        ELSE Return(p, r, 200, BusinessResponse(business_id, business))
    /\ UNCHANGED <<businesses, reviews, nextBid, nextRid, world>>

\* GET /businesses
list_businesses(p) ==
    /\ Arrive(p)
    /\ Return(p, Request("list_businesses", 0, EmptyContent), 200,
              {BusinessResponse(i, businesses[i]) : i \in DOMAIN businesses})
    /\ UNCHANGED <<businesses, reviews, nextBid, nextRid, world>>

\* GET /owners/<owner_id>/businesses
list_owner_businesses(p) ==
    /\ Arrive(p)
    /\ \E owner_id \in Owners :
        Return(p, Request("list_owner_businesses", owner_id, EmptyContent), 200,
               {BusinessResponse(i, businesses[i]) :
                    i \in QueryEqual(businesses, "owner_id", owner_id)})
    /\ UNCHANGED <<businesses, reviews, nextBid, nextRid, world>>

\* edit_business_get writing the body before it looks at what client.get found
edit_business_get_putfirst(p) ==
    /\ Arrive(p)
    /\ \E business_id \in BusinessIds, content \in BusinessContents :
        LET r == Request("edit_business", business_id, content)
            business == Get(businesses, business_id) IN
        IF ~HasAll(content, BusinessRequired)
        THEN /\ Return(p, r, 400, ErrorBody(MissingAttributes))
             /\ UNCHANGED businesses
        ELSE /\ businesses' = Put(businesses, business_id,
                                   [f \in BusinessRequired |-> content[f]])
             /\ IF Missing(business)
                THEN Return(p, r, 404, ErrorBody(NoBusiness))
                ELSE Goto(p, r, "edit_business_put", business, {})
    /\ UNCHANGED <<reviews, nextBid, nextRid, world>>

\* PUT /businesses/<business_id>: validation and client.get
edit_business_get(p) ==
    /\ Arrive(p)
    /\ \E business_id \in BusinessIds, content \in BusinessContents :
        LET r == Request("edit_business", business_id, content)
            business == Get(businesses, business_id) IN
        IF ~HasAll(content, BusinessRequired)
        THEN Return(p, r, 400, ErrorBody(MissingAttributes))
        ELSE IF Missing(business)
        THEN Return(p, r, 404, ErrorBody(NoBusiness))
        ELSE Goto(p, r, "edit_business_put", business, {})
    /\ UNCHANGED <<businesses, reviews, nextBid, nextRid, world>>

\* edit_business_put with zip_code left out of business.update
edit_business_put_carry(p) ==
    /\ At(p, "edit_business_put")
    /\ LET content == req[p].content
           business == [f \in DOMAIN entity[p] \cup BusinessRequired |->
                            IF f \in BusinessRequired \ {"zip_code"}
                            THEN content[f] ELSE entity[p][f]]
       IN  /\ businesses' = Put(businesses, req[p].id, business)
           /\ Return(p, req[p], 200, BusinessResponse(req[p].id, business))
    /\ UNCHANGED <<reviews, nextBid, nextRid, pre, world>>

\* PUT /businesses/<business_id>: business.update and client.put
edit_business_put(p) ==
    /\ At(p, "edit_business_put")
    /\ LET content == req[p].content
           business == [f \in DOMAIN entity[p] \cup BusinessRequired |->
                            IF f \in BusinessRequired THEN content[f] ELSE entity[p][f]]
       IN  /\ businesses' = Put(businesses, req[p].id, business)
           /\ Return(p, req[p], 200, BusinessResponse(req[p].id, business))
    /\ UNCHANGED <<reviews, nextBid, nextRid, pre, world>>

\* DELETE /businesses/<business_id>: client.get
delete_business_get(p) ==
    /\ Arrive(p)
    /\ \E business_id \in BusinessIds :
        LET r == Request("delete_business", business_id, EmptyContent)
            business == Get(businesses, business_id) IN
        IF Missing(business)
        THEN Return(p, r, 404, ErrorBody(NoBusiness))
        ELSE Goto(p, r, "delete_business_query", NoEntity, {})
    /\ UNCHANGED <<businesses, reviews, nextBid, nextRid, world>>

\* delete_business_query with the business key deleted before its reviews
delete_business_query_keyfirst(p) ==
    /\ At(p, "delete_business_query")
    /\ businesses' = Delete(businesses, req[p].id)
    /\ Goto(p, req[p], "delete_business_reviews", NoEntity,
            QueryEqual(reviews, "business_id", req[p].id))
    /\ UNCHANGED <<reviews, nextBid, nextRid, pre, world>>

\* delete_business_query filtering on the wrong property
delete_business_query_wrongfilter(p) ==
    /\ At(p, "delete_business_query")
    /\ Goto(p, req[p], "delete_business_reviews", NoEntity,
            QueryEqual(reviews, "user_id", req[p].id))
    /\ UNCHANGED <<businesses, reviews, nextBid, nextRid, pre, world>>

\* DELETE /businesses/<business_id>: the query for its reviews
delete_business_query(p) ==
    /\ At(p, "delete_business_query")
    /\ Goto(p, req[p], "delete_business_reviews", NoEntity,
            QueryEqual(reviews, "business_id", req[p].id))
    /\ UNCHANGED <<businesses, reviews, nextBid, nextRid, pre, world>>

\* delete_business_review with the business key deleted before the loop is over
delete_business_review_keyfirst(p) ==
    /\ At(p, "delete_business_reviews")
    /\ todo[p] # {}
    /\ \E review \in todo[p] :
        /\ businesses' = Delete(businesses, req[p].id)
        /\ reviews' = Delete(reviews, review)
        /\ Goto(p, req[p], "delete_business_reviews", NoEntity, todo[p] \ {review})
    /\ UNCHANGED <<nextBid, nextRid, pre, world>>

\* DELETE /businesses/<business_id>: one pass of `for review in reviews`
delete_business_review(p) ==
    /\ At(p, "delete_business_reviews")
    /\ todo[p] # {}
    /\ \E review \in todo[p] :
        /\ reviews' = Delete(reviews, review)
        /\ Goto(p, req[p], "delete_business_reviews", NoEntity, todo[p] \ {review})
    /\ UNCHANGED <<businesses, nextBid, nextRid, pre, world>>

\* DELETE /businesses/<business_id>: client.delete(key) after the loop
delete_business_key(p) ==
    /\ At(p, "delete_business_reviews")
    /\ todo[p] = {}
    /\ businesses' = Delete(businesses, req[p].id)
    /\ Return(p, req[p], 204, "")
    /\ UNCHANGED <<reviews, nextBid, nextRid, pre, world>>

----------------------------------------------------------------------------
(* Review handlers *)

\* create_review requests that have passed validation and the business lookup
\* and will allocate a Review id
PendingCreates == Cardinality({q \in Procs : req[q].op = "create_review"})

\* NewReview storing an empty review_text when the body has none
NewReview_emptytext(content) ==
    LET review == [f \in ReviewRequired |-> content[f]]
    IN  IF "review_text" \in DOMAIN content
        THEN WithText(review, content.review_text)
        ELSE WithText(review, "")

\* the review entity create_review builds from the request body
NewReview(content) ==
    LET review == [f \in ReviewRequired |-> content[f]]
    IN  IF "review_text" \in DOMAIN content
        THEN WithText(review, content.review_text)
        ELSE review

\* EditedReview as review.update(content): every key of the body is assigned
EditedReview_update(review, content) ==
    [f \in DOMAIN review \cup DOMAIN content |->
        IF f \in DOMAIN content THEN content[f] ELSE review[f]]

\* EditedReview rebuilding the entity from the body: a review_text the body
\* omits is dropped
EditedReview_cleartext(review, content) ==
    LET starred == [f \in DOMAIN review \ {"review_text"} |->
                        IF f = "stars" THEN content.stars ELSE review[f]]
    IN  IF "review_text" \in DOMAIN content
        THEN WithText(starred, content.review_text)
        ELSE starred

\* the entity edit_review writes back: the one it read, with stars and
\* (when supplied) review_text assigned from the request body
EditedReview(review, content) ==
    LET starred == [review EXCEPT !["stars"] = content.stars]
    IN  IF "review_text" \in DOMAIN content
        THEN WithText(starred, content.review_text)
        ELSE starred

\* ExistingReviews without the user_id filter
ExistingReviews_businessOnly(content) ==
    QueryEqual(reviews, "business_id", content.business_id)

\* the query of create_review: both equality filters
ExistingReviews(content) ==
    QueryEqual(reviews, "user_id", content.user_id)
        \cap QueryEqual(reviews, "business_id", content.business_id)

\* create_review_get without the check of what client.get found
create_review_get_nolookup(p) ==
    /\ Arrive(p)
    /\ \E content \in ReviewContents :
        LET r == Request("create_review", 0, content) IN
        IF ~HasAll(content, ReviewRequired)
        THEN Return(p, r, 400, ErrorBody(MissingAttributes))
        ELSE /\ nextRid + PendingCreates <= world.reviewIds
             /\ Goto(p, r, "create_review_query", NoEntity, {})
    /\ UNCHANGED <<businesses, reviews, nextBid, nextRid, world>>

\* POST /reviews: validation and client.get of the business
create_review_get(p) ==
    /\ Arrive(p)
    /\ \E content \in ReviewContents :
        LET r == Request("create_review", 0, content) IN
        IF ~HasAll(content, ReviewRequired)
        THEN Return(p, r, 400, ErrorBody(MissingAttributes))
        ELSE IF Missing(Get(businesses, content.business_id))
        THEN Return(p, r, 404, ErrorBody(NoBusiness))
        ELSE /\ nextRid + PendingCreates <= world.reviewIds
             /\ Goto(p, r, "create_review_query", NoEntity, {})
    /\ UNCHANGED <<businesses, reviews, nextBid, nextRid, world>>

\* POST /reviews: the query for a review by this user of this business
create_review_query(p) ==
    /\ At(p, "create_review_query")
    /\ IF ExistingReviews(req[p].content) # {}
       THEN Return(p, req[p], 409, ErrorBody(AlreadyReviewed))
       ELSE Goto(p, req[p], "create_review_put", NoEntity, {})
    /\ UNCHANGED <<businesses, reviews, nextBid, nextRid, pre, world>>

\* create_review_put repeating the duplicate query in one transaction with the put
create_review_put_checked(p) ==
    /\ At(p, "create_review_put")
    /\ IF ExistingReviews(req[p].content) # {}
       THEN /\ Return(p, req[p], 409, ErrorBody(AlreadyReviewed))
            /\ UNCHANGED <<reviews, nextRid>>
       ELSE LET review == NewReview(req[p].content) IN
            /\ reviews' = Put(reviews, nextRid, review)
            /\ nextRid' = nextRid + 1
            /\ Return(p, req[p], 201, ReviewResponse(nextRid, review))
    /\ UNCHANGED <<businesses, nextBid, pre, world>>

\* POST /reviews: client.put of the new review
create_review_put(p) ==
    /\ At(p, "create_review_put")
    /\ LET review == NewReview(req[p].content) IN
        /\ reviews' = Put(reviews, nextRid, review)
        /\ nextRid' = nextRid + 1
        /\ Return(p, req[p], 201, ReviewResponse(nextRid, review))
    /\ UNCHANGED <<businesses, nextBid, pre, world>>

\* GET /reviews/<review_id>
get_review(p) ==
    /\ Arrive(p)
    /\ \E review_id \in ReviewIds :
        LET r == Request("get_review", review_id, EmptyContent)
            review == Get(reviews, review_id) IN
        IF Missing(review)
        THEN Return(p, r, 404, ErrorBody(NoReview))
        ELSE Return(p, r, 200, ReviewResponse(review_id, review))
    /\ UNCHANGED <<businesses, reviews, nextBid, nextRid, world>>

\* edit_review_get looking the review up before it validates the body
edit_review_get_lookupfirst(p) ==
    /\ Arrive(p)
    /\ \E review_id \in ReviewIds, content \in EditReviewContents :
        LET r == Request("edit_review", review_id, content)
            review == Get(reviews, review_id) IN
        IF Missing(review)
        THEN Return(p, r, 404, ErrorBody(NoReview))
        ELSE IF "stars" \notin DOMAIN content
        THEN Return(p, r, 400, ErrorBody(MissingAttributes))
        ELSE Goto(p, r, "edit_review_put", review, {})
    /\ UNCHANGED <<businesses, reviews, nextBid, nextRid, world>>

\* PUT /reviews/<review_id>: validation and client.get
edit_review_get(p) ==
    /\ Arrive(p)
    /\ \E review_id \in ReviewIds, content \in EditReviewContents :
        LET r == Request("edit_review", review_id, content)
            review == Get(reviews, review_id) IN
        IF "stars" \notin DOMAIN content
        THEN Return(p, r, 400, ErrorBody(MissingAttributes))
        ELSE IF Missing(review)
        THEN Return(p, r, 404, ErrorBody(NoReview))
        ELSE Goto(p, r, "edit_review_put", review, {})
    /\ UNCHANGED <<businesses, reviews, nextBid, nextRid, world>>

\* PUT /reviews/<review_id>: the assignments and client.put
edit_review_put(p) ==
    /\ At(p, "edit_review_put")
    /\ LET review == EditedReview(entity[p], req[p].content) IN
        /\ reviews' = Put(reviews, req[p].id, review)
        /\ Return(p, req[p], 200, ReviewResponse(req[p].id, review))
    /\ UNCHANGED <<businesses, nextBid, nextRid, pre, world>>

\* DELETE /reviews/<review_id>: client.get
delete_review_get(p) ==
    /\ Arrive(p)
    /\ \E review_id \in ReviewIds :
        LET r == Request("delete_review", review_id, EmptyContent) IN
        IF Missing(Get(reviews, review_id))
        THEN Return(p, r, 404, ErrorBody(NoReview))
        ELSE Goto(p, r, "delete_review_key", NoEntity, {})
    /\ UNCHANGED <<businesses, reviews, nextBid, nextRid, world>>

\* delete_review_key deleting every review of the same business
delete_review_key_cascade(p) ==
    /\ At(p, "delete_review_key")
    /\ reviews' = [i \in DOMAIN reviews \
                        QueryEqual(reviews, "business_id",
                                   Get(reviews, req[p].id).business_id) |-> reviews[i]]
    /\ Return(p, req[p], 204, "")
    /\ UNCHANGED <<businesses, nextBid, nextRid, pre, world>>

\* DELETE /reviews/<review_id>: client.delete(key)
delete_review_key(p) ==
    /\ At(p, "delete_review_key")
    /\ reviews' = Delete(reviews, req[p].id)
    /\ Return(p, req[p], 204, "")
    /\ UNCHANGED <<businesses, nextBid, nextRid, pre, world>>

\* GET /users/<user_id>/reviews
list_user_reviews(p) ==
    /\ Arrive(p)
    /\ \E user_id \in Users :
        Return(p, Request("list_user_reviews", user_id, EmptyContent), 200,
               {ReviewResponse(i, reviews[i]) :
                    i \in QueryEqual(reviews, "user_id", user_id)})
    /\ UNCHANGED <<businesses, reviews, nextBid, nextRid, world>>

\* The process serving a request dies between two storage calls: the
\* remaining calls of the handler are never made, nothing is rolled back and
\* no response goes out (status 0; `last` names the request that died).
Crash(p) ==
    /\ pc[p] # "idle"
    /\ last.p = 0
    /\ pc' = [pc EXCEPT ![p] = "idle"]
    /\ req' = [req EXCEPT ![p] = NoReq]
    /\ entity' = [entity EXCEPT ![p] = NoEntity]
    /\ todo' = [todo EXCEPT ![p] = {}]
    /\ last' = Response(p, req[p], 0, "")
    /\ UNCHANGED <<businesses, reviews, nextBid, nextRid, pre, world>>

\* The response of the step just taken goes out to the caller (after a crash
\* no response does, and the worker is started again).
Respond ==
    /\ last.p # 0
    /\ last' = NoResp
    /\ pre' = EmptyStore
    /\ UNCHANGED <<businesses, reviews, nextBid, nextRid, pc, req, entity, todo, world>>

----------------------------------------------------------------------------------------------------------------------------------------------------
(* Specifications *)

Start(w) ==
    /\ world = w
    /\ businesses = NoEntity
    /\ reviews = NoEntity
    /\ nextBid = 1
    /\ nextRid = 1
    /\ pc = [p \in 1..w.procs |-> "idle"]
    /\ req = [p \in 1..w.procs |-> NoReq]
    /\ entity = [p \in 1..w.procs |-> NoEntity]
    /\ todo = [p \in 1..w.procs |-> {}]
    /\ last = NoResp
    /\ pre = EmptyStore

\* requests are handled concurrently
Init == Start(ConcurrentWorld)

\* requests are handled one at a time
SeqInit == Start(SerialWorld)

Next ==
    \/ \E p \in Procs : create_business(p)
    \/ \E p \in Procs : get_business(p)
    \/ \E p \in Procs : list_businesses(p)
    \/ \E p \in Procs : list_owner_businesses(p)
    \/ \E p \in Procs : edit_business_get(p)
    \/ \E p \in Procs : edit_business_put(p)
    \/ \E p \in Procs : delete_business_get(p)
    \/ \E p \in Procs : delete_business_query(p)
    \/ \E p \in Procs : delete_business_review(p)
    \/ \E p \in Procs : delete_business_key(p)
    \/ \E p \in Procs : create_review_get(p)
    \/ \E p \in Procs : create_review_query(p)
    \/ \E p \in Procs : create_review_put(p)
    \/ \E p \in Procs : get_review(p)
    \/ \E p \in Procs : edit_review_get(p)
    \/ \E p \in Procs : edit_review_put(p)
    \/ \E p \in Procs : delete_review_get(p)
    \/ \E p \in Procs : delete_review_key(p)
    \/ \E p \in Procs : list_user_reviews(p)
    \/ \E p \in Procs : Crash(p)
    \/ Respond

Spec == Init /\ [][Next]_vars

SeqSpec == SeqInit /\ [][Next]_vars

\* One worker, starting from a store that holds an orphaned review: business 1
\* was deleted while the review of it was being created.
OrphanInit ==
    /\ world = BusinessWorld
    /\ \E u \in 1..BusinessWorld.users : reviews = [i \in {1} |-> ReviewBody(u, 1, 5)]
    /\ businesses = NoEntity
    /\ nextBid = 2
    /\ nextRid = 2
    /\ pc = [p \in {1} |-> "idle"]
    /\ req = [p \in {1} |-> NoReq]
    /\ entity = [p \in {1} |-> NoEntity]
    /\ todo = [p \in {1} |-> {}]
    /\ last = NoResp
    /\ pre = EmptyStore

OrphanSpec == OrphanInit /\ [][Next]_vars

\* Several workers that serve Create Review requests only, on a store that
\* holds business 1.
RaceInit ==
    /\ world = RaceWorld
    /\ businesses = [i \in {1} |-> BusinessBody(1)]
    /\ reviews = NoEntity
    /\ nextBid = 2
    /\ nextRid = 1
    /\ pc = [p \in 1..NumProcs |-> "idle"]
    /\ req = [p \in 1..NumProcs |-> NoReq]
    /\ entity = [p \in 1..NumProcs |-> NoEntity]
    /\ todo = [p \in 1..NumProcs |-> {}]
    /\ last = NoResp
    /\ pre = EmptyStore

RaceNext ==
    \/ \E p \in Procs : create_review_get(p)
    \/ \E p \in Procs : create_review_query(p)
    \/ \E p \in Procs : create_review_put(p)
    \/ Respond

RaceSpec == RaceInit /\ [][RaceNext]_vars

\* One worker that serves Delete requests only, on a store that earlier
\* Creates have filled: every business, and a review for some of the
\* (user, business) pairs, review (u, b) under id (u - 1) * businessIds + b.
FrameInit ==
    /\ world = FrameWorld
    /\ businesses = [b \in 1..FrameWorld.businessIds |-> BusinessBody(1)]
    /\ \E ids \in SUBSET (1..FrameWorld.reviewIds) :
            reviews = [i \in ids |->
                        ReviewBody(((i - 1) \div FrameWorld.businessIds) + 1,
                                   ((i - 1) % FrameWorld.businessIds) + 1, 5)]
    /\ nextBid = FrameWorld.businessIds + 1
    /\ nextRid = FrameWorld.reviewIds + 1
    /\ pc = [p \in {1} |-> "idle"]
    /\ req = [p \in {1} |-> NoReq]
    /\ entity = [p \in {1} |-> NoEntity]
    /\ todo = [p \in {1} |-> {}]
    /\ last = NoResp
    /\ pre = EmptyStore

FrameNext ==
    \/ \E p \in Procs : delete_business_get(p)
    \/ \E p \in Procs : delete_business_query(p)
    \/ \E p \in Procs : delete_business_review(p)
    \/ \E p \in Procs : delete_business_key(p)
    \/ \E p \in Procs : delete_review_get(p)
    \/ \E p \in Procs : delete_review_key(p)
    \/ Respond

FrameSpec == FrameInit /\ [][FrameNext]_vars

----------------------------------------------------------------------------
(* Properties *)

\* every field of `required` is a key of the request body
Complete(content, required) == \A f \in required : f \in DOMAIN content

\* The step just taken returned a response to a request of route `op`.
Returned(op) == last.status # 0 /\ last.req.op = op

\* the reviews of store contents `revs` by user u of business b
ReviewsOfPair(revs, u, b) ==
    {i \in DOMAIN revs : revs[i].user_id = u /\ revs[i].business_id = b}

\* the reviews of store contents `revs` that reference no business of `bizs`
Orphans(bizs, revs) == {i \in DOMAIN revs : revs[i].business_id \notin DOMAIN bizs}

\* C1: in every reachable state, also when the storage steps of Create Review
\* requests for the same pair interleave, at most one Review exists for any
\* (user_id, business_id) pair.
C1_OneReviewPerPair ==
    \A i \in DOMAIN reviews, j \in DOMAIN reviews :
        (reviews[i].user_id = reviews[j].user_id
            /\ reviews[i].business_id = reviews[j].business_id) => i = j

\* C2: when a Delete Business(b) that ran alone returns success, every review
\* that had business_id = b when the request arrived is gone (Get Review finds
\* nothing), and no review of b is in the store.
C2_CascadeRemovesReviews ==
    (Returned("delete_business") /\ last.status = 204) =>
        /\ \A r \in DOMAIN pre.reviews :
                pre.reviews[r].business_id = last.req.id => Missing(Get(reviews, r))
        /\ QueryEqual(reviews, "business_id", last.req.id) = {}

\* C2 witness: a successful Delete Business of a business that had two reviews,
\* by different users.
C2_Witness ==
    /\ Returned("delete_business")
    /\ last.status = 204
    /\ \E r1 \in DOMAIN pre.reviews, r2 \in DOMAIN pre.reviews :
        /\ pre.reviews[r1].business_id = last.req.id
        /\ pre.reviews[r2].business_id = last.req.id
        /\ pre.reviews[r1].user_id # pre.reviews[r2].user_id

\* C3: with Create Review and Delete Business running concurrently, in every
\* state in which no Delete Business is in progress every Review references a
\* Business in the store.
C3_NoOrphanOutsideCascade ==
    (\A p \in Procs : req[p].op # "delete_business") =>
        Orphans(businesses, reviews) = {}

\* C4: with one worker, Delete Business removes the Business last: while its
\* cascade is in progress the Business is still in the store, and in every
\* state (every intermediate state of a cascade, and the state a crash at any
\* step leaves behind) every Review references a Business in the store.
C4_BusinessRemovedLast ==
    /\ \A p \in Procs : req[p].op = "delete_business" => req[p].id \in DOMAIN businesses
    /\ Orphans(businesses, reviews) = {}

\* C4 witness: the middle of a cascade: one review of the business has been
\* deleted, another is still to be deleted.
C4_Witness ==
    \E p \in Procs :
        /\ pc[p] = "delete_business_reviews"
        /\ todo[p] # {}
        /\ \E r \in DOMAIN pre.reviews :
            pre.reviews[r].business_id = req[p].id /\ r \notin DOMAIN reviews

\* C5: the uniqueness check is not atomic with the put: a Create Review that
\* has passed the duplicate query stores its review and returns 201 whatever
\* the store holds by then, so the pair gains one more review even when another
\* request stored one for the same pair in between.
C5_PutAfterStaleCheck ==
    [][\A p \in Procs :
        (pc[p] = "create_review_put" /\ pc'[p] = "idle") =>
            LET u == req[p].content.user_id
                b == req[p].content.business_id
            IN  /\ last'.status = 201
                /\ Cardinality(ReviewsOfPair(reviews', u, b))
                     = Cardinality(ReviewsOfPair(reviews, u, b)) + 1]_vars

\* C5 witness: a Create Review has just returned 201 and the store holds two
\* reviews for its pair.
C5_Witness ==
    /\ Returned("create_review")
    /\ last.status = 201
    /\ Cardinality(ReviewsOfPair(reviews, last.req.content.user_id,
                                 last.req.content.business_id)) = 2

\* C6: with one worker, a Create Review with user_id, business_id and stars on
\* an existing Business returns 409 exactly when a Review of the same pair is in
\* the store, and then stores nothing; otherwise it returns 201 and the store
\* gains exactly one Review, of that pair, under a new id.
C6_ConflictIffDuplicate ==
    (/\ Returned("create_review")
     /\ Complete(last.req.content, ReviewRequired)
     /\ last.req.content.business_id \in DOMAIN pre.businesses) =>
        LET u == last.req.content.user_id
            b == last.req.content.business_id
            dup == ReviewsOfPair(pre.reviews, u, b) # {}
        IN  /\ last.status = 409 <=> dup
            /\ dup => Store = pre
            /\ ~dup =>
                /\ last.status = 201
                /\ businesses = pre.businesses
                /\ \E id \in DOMAIN reviews \ DOMAIN pre.reviews :
                    /\ DOMAIN reviews = DOMAIN pre.reviews \cup {id}
                    /\ ReviewsOfPair(reviews, u, b) = {id}
                /\ \A r \in DOMAIN pre.reviews : reviews[r] = pre.reviews[r]

\* C6 witness: a Create Review succeeds on a store from which an earlier review
\* has been deleted.
C6_Witness ==
    /\ Returned("create_review")
    /\ last.status = 201
    /\ last.body.id = 2
    /\ DOMAIN pre.reviews = {}

\* C7: a Create Review with all of user_id, business_id and stars returns 404
\* whenever business_id references no Business in the store, also when a Review
\* of the same pair exists; a body that lacks a required field returns 400
\* first; and a Review is stored only when the body is complete, the Business
\* exists and no Review of the pair exists.
C7_ChecksInOrder ==
    Returned("create_review") =>
        LET c == last.req.content IN
        /\ ~Complete(c, ReviewRequired) => last.status = 400
        /\ (Complete(c, ReviewRequired) /\ c.business_id \notin DOMAIN pre.businesses)
                => (last.status = 404 /\ Store = pre)
        /\ reviews # pre.reviews =>
                /\ Complete(c, ReviewRequired)
                /\ c.business_id \in DOMAIN pre.businesses
                /\ ReviewsOfPair(pre.reviews, c.user_id, c.business_id) = {}

\* C7 witness: 404 for a pair that already has an (orphaned) review.
C7_Witness ==
    /\ Returned("create_review")
    /\ last.status = 404
    /\ ReviewsOfPair(pre.reviews, last.req.content.user_id,
                     last.req.content.business_id) # {}

\* the requests addressed to one Business / one Review by id
BusinessById == {"get_business", "edit_business", "delete_business"}
ReviewById == {"get_review", "edit_review", "delete_review"}

\* the id of the request that just returned is not in the store it arrived at
AbsentId ==
    \/ last.req.op \in BusinessById /\ last.req.id \notin DOMAIN pre.businesses
    \/ last.req.op \in ReviewById /\ last.req.id \notin DOMAIN pre.reviews

\* the body of the Replace that just returned lacks a required field
InvalidReplace ==
    \/ last.req.op = "edit_business" /\ ~Complete(last.req.content, BusinessRequired)
    \/ last.req.op = "edit_review" /\ ~Complete(last.req.content, {"stars"})

\* C8 as claimed: Get, Replace and Delete of an id that is not in the store
\* return 404 for every request body.
C8_AlwaysNotFound ==
    (last.status # 0 /\ AbsentId) => last.status = 404

\* C8 as amended: Get and Delete of an id that is not in the store return 404,
\* and so does a Replace whose body has the required fields; a Replace whose
\* body lacks a required field returns 400, whether or not the id exists.
C8_NotFoundAfterValidation ==
    /\ (last.status # 0 /\ AbsentId /\ ~InvalidReplace) => last.status = 404
    /\ (last.status # 0 /\ InvalidReplace) => last.status = 400

\* C8 witness: a Replace with a complete body of an id that is not in the
\* store, while the store holds other entities of that kind.
C8_Witness ==
    /\ Returned("edit_review")
    /\ AbsentId
    /\ ~InvalidReplace
    /\ DOMAIN pre.reviews # {}

\* C9: Create returns 400 exactly when a required field is absent from the
\* body, and then stores nothing.
C9_ValidationIffMissing ==
    /\ Returned("create_business") =>
        /\ last.status = 400 <=> ~Complete(last.req.content, BusinessRequired)
        /\ last.status = 400 => Store = pre
    /\ Returned("create_review") =>
        /\ last.status = 400 <=> ~Complete(last.req.content, ReviewRequired)
        /\ last.status = 400 => Store = pre

\* C9 witness: a Create Review that lacks one field is refused although its
\* business exists.
C9_Witness ==
    /\ Returned("create_review")
    /\ last.status = 400
    /\ "business_id" \in DOMAIN last.req.content
    /\ last.req.content.business_id \in DOMAIN businesses

\* C10: a request that returns 400, 404 or 409 has written and deleted
\* nothing: the store is what it was when the request arrived.
C10_ErrorsLeaveStore ==
    last.status \in {400, 404, 409} => Store = pre

\* C10 witness: a refused Replace Business on a store that holds a business
\* and a review.
C10_Witness ==
    /\ Returned("edit_business")
    /\ last.status \in {400, 404}
    /\ DOMAIN businesses # {}
    /\ DOMAIN reviews # {}

\* C11: with one worker, a Replace Review of an existing review with stars in
\* the body returns 200 and stores the body's stars; it stores the body's
\* review_text when the body has one; when the body has none, the stored
\* review_text is present or absent exactly as before, with the value it had,
\* and the response carries that prior review_text with the new stars.
C11_ReplaceKeepsOmittedText ==
    (/\ Returned("edit_review")
     /\ last.req.id \in DOMAIN pre.reviews
     /\ "stars" \in DOMAIN last.req.content) =>
        LET c == last.req.content
            old == pre.reviews[last.req.id]
            new == Get(reviews, last.req.id)
        IN  /\ last.status = 200
            /\ ~Missing(new)
            /\ new.stars = c.stars
            /\ last.body.stars = c.stars
            /\ "review_text" \in DOMAIN c =>
                    /\ "review_text" \in DOMAIN new
                    /\ new.review_text = c.review_text
            /\ "review_text" \notin DOMAIN c =>
                    /\ "review_text" \in DOMAIN new <=> "review_text" \in DOMAIN old
                    /\ "review_text" \in DOMAIN last.body <=> "review_text" \in DOMAIN old
                    /\ "review_text" \in DOMAIN old =>
                            /\ new.review_text = old.review_text
                            /\ last.body.review_text = old.review_text

\* C11 witness: a Replace Review without review_text changes the stars of a
\* review whose review_text is "great".
C11_Witness ==
    /\ Returned("edit_review")
    /\ last.status = 200
    /\ "review_text" \notin DOMAIN last.req.content
    /\ "review_text" \in DOMAIN pre.reviews[last.req.id]
    /\ pre.reviews[last.req.id].review_text = "great"
    /\ pre.reviews[last.req.id].stars # last.req.content.stars

\* C12: with one worker, a Replace Business of an existing business whose body
\* lacks one of the six fields returns 400 and leaves the store as it was; one
\* whose body has all six returns 200 and every one of the six stored fields
\* is the body's value, under the same id, nothing else in the store changing.
C12_FullReplacement ==
    (Returned("edit_business") /\ last.req.id \in DOMAIN pre.businesses) =>
        LET id == last.req.id
            c == last.req.content
        IN  IF ~Complete(c, BusinessRequired)
            THEN last.status = 400 /\ Store = pre
            ELSE /\ last.status = 200
                 /\ last.body.id = id
                 /\ DOMAIN businesses = DOMAIN pre.businesses
                 /\ \A f \in BusinessRequired :
                        businesses[id][f] = c[f] /\ last.body[f] = c[f]
                 /\ \A b \in DOMAIN businesses \ {id} : businesses[b] = pre.businesses[b]
                 /\ reviews = pre.reviews

\* C12 witness: a Replace Business whose six values all differ from the
\* stored ones.
C12_Witness ==
    /\ Returned("edit_business")
    /\ last.status = 200
    /\ \A f \in BusinessRequired : pre.businesses[last.req.id][f] # last.req.content[f]

\* C13: with one worker, a Create that returns 201 returns the fields of the
\* body with an id that no entity of the kind had before, and the response Get
\* computes for that id from the store is the same; the stored review has
\* review_text exactly when the body has it (the empty text included).
C13_CreateRoundTrip ==
    /\ (Returned("create_business") /\ last.status = 201) =>
            LET c == last.req.content
                id == last.body.id
            IN  /\ DOMAIN last.body = BusinessRequired \cup {"id"}
                /\ \A f \in BusinessRequired : last.body[f] = c[f]
                /\ id \notin DOMAIN pre.businesses
                /\ ~Missing(Get(businesses, id))
                /\ BusinessResponse(id, Get(businesses, id)) = last.body
    /\ (Returned("create_review") /\ last.status = 201) =>
            LET c == last.req.content
                id == last.body.id
            IN  /\ DOMAIN last.body = DOMAIN c \cup {"id"}
                /\ \A f \in DOMAIN c : last.body[f] = c[f]
                /\ id \notin DOMAIN pre.reviews
                /\ ~Missing(Get(reviews, id))
                /\ DOMAIN reviews[id] = DOMAIN c
                /\ ReviewResponse(id, Get(reviews, id)) = last.body

\* C13 witness: a review created without review_text next to a stored review,
\* and one created with the empty review_text.
C13_Witness ==
    /\ Returned("create_review")
    /\ last.status = 201
    /\ DOMAIN pre.reviews # {}
    /\ "review_text" \notin DOMAIN last.req.content
    /\ \E r \in DOMAIN pre.reviews :
            "review_text" \in DOMAIN pre.reviews[r] /\ pre.reviews[r].review_text = ""

\* C14: with one worker, every step leaves the user_id and business_id of
\* every stored Review as they were, and a Review enters the store only by the
\* put of a Create Review, under an id that was never used, with the user_id
\* and business_id of that request's body: so a Review holds the values given
\* at Create for as long as it exists, whatever the bodies of the Replaces.
C14_PairFixedAtCreate ==
    [][/\ \A i \in DOMAIN reviews \cap DOMAIN reviews' :
            /\ reviews'[i].user_id = reviews[i].user_id
            /\ reviews'[i].business_id = reviews[i].business_id
       /\ \A i \in DOMAIN reviews' \ DOMAIN reviews :
            /\ i = nextRid
            /\ nextRid' = nextRid + 1
            /\ \A j \in DOMAIN reviews : j < nextRid
            /\ \E p \in Procs :
                /\ pc[p] = "create_review_put"
                /\ reviews'[i].user_id = req[p].content.user_id
                /\ reviews'[i].business_id = req[p].content.business_id]_vars

\* C14 witness: a Replace Review whose body carries a user_id and a
\* business_id, both different from the stored ones, has returned 200.
C14_Witness ==
    /\ Returned("edit_review")
    /\ last.status = 200
    /\ "user_id" \in DOMAIN last.req.content
    /\ "business_id" \in DOMAIN last.req.content
    /\ last.req.content.user_id # pre.reviews[last.req.id].user_id
    /\ last.req.content.business_id # pre.reviews[last.req.id].business_id

\* the storage call worker p makes in this step is `label`
Calls(p, label) == pc[p] = label /\ pc'[p] # pc[p]

\* C15: per Review id the store changes only in these ways: an absent Review
\* becomes present by the put of a Create Review, a present Review changes by
\* the put of a Replace Review, and a present Review becomes absent by the
\* delete of a Delete Review or of the cascade of a Delete Business; a Replace
\* never makes an absent Review present, also when it interleaves with a
\* Delete Review or a cascade.
C15_ReviewLifecycle ==
    [][/\ \A i \in DOMAIN reviews' \ DOMAIN reviews :
            \E p \in Procs : Calls(p, "create_review_put")
       /\ \A i \in DOMAIN reviews \cap DOMAIN reviews' :
            reviews'[i] # reviews[i] => \E p \in Procs : Calls(p, "edit_review_put")
       /\ \A i \in DOMAIN reviews \ DOMAIN reviews' :
            \E p \in Procs : Calls(p, "delete_review_key")
                                \/ pc[p] = "delete_business_reviews"]_vars

\* The step just taken was the crash of a worker serving a request of route
\* `op`, after at least one and not all of the handler's storage calls.
CrashedIn(op) == last.status = 0 /\ last.req.op = op

\* C16 as claimed: with one worker, a crash that interrupts the cascade of a
\* Delete Business leaves the store holding an orphaned Review.  Only a crash
\* that comes while Reviews of the Business remain in the store could leave
\* one, so the claim is stated of those crashes.
C16_CrashLeavesOrphan ==
    (/\ CrashedIn("delete_business")
     /\ QueryEqual(reviews, "business_id", last.req.id) # {}) =>
        Orphans(businesses, reviews) # {}

\* C16 as amended: with one worker, a crash at any point of the cascade of a
\* Delete Business leaves no orphaned Review: the Business and every other
\* Business are still in the store, and the Reviews are those of the arrival
\* store less some of the Reviews of that Business.
C16_CrashLeavesNoOrphan ==
    CrashedIn("delete_business") =>
        /\ Orphans(businesses, reviews) = {}
        /\ businesses = pre.businesses
        /\ last.req.id \in DOMAIN businesses
        /\ DOMAIN reviews \subseteq DOMAIN pre.reviews
        /\ \A r \in DOMAIN reviews : reviews[r] = pre.reviews[r]
        /\ \A r \in DOMAIN pre.reviews \ DOMAIN reviews :
                pre.reviews[r].business_id = last.req.id

\* C16 witness: the crash came after one Review of the Business was deleted
\* and before another was.
C16_Witness ==
    /\ CrashedIn("delete_business")
    /\ \E r \in DOMAIN pre.reviews : r \notin DOMAIN reviews
    /\ QueryEqual(reviews, "business_id", last.req.id) # {}

\* C17: with one worker, a Delete Review that returns 204 has removed the
\* Review of its id and nothing else: every Business and every other Review is
\* as it was when the request arrived; and a Delete Business(b) that returns
\* 204 has left every other Business and every Review whose business_id is
\* not b as it was.
C17_DeleteFrame ==
    /\ (Returned("delete_review") /\ last.status = 204) =>
            /\ businesses = pre.businesses
            /\ last.req.id \in DOMAIN pre.reviews
            /\ DOMAIN reviews = DOMAIN pre.reviews \ {last.req.id}
            /\ \A r \in DOMAIN reviews : reviews[r] = pre.reviews[r]
    /\ (Returned("delete_business") /\ last.status = 204) =>
            /\ DOMAIN businesses = DOMAIN pre.businesses \ {last.req.id}
            /\ \A b \in DOMAIN businesses : businesses[b] = pre.businesses[b]
            /\ \A r \in DOMAIN pre.reviews :
                    pre.reviews[r].business_id # last.req.id =>
                        r \in DOMAIN reviews /\ reviews[r] = pre.reviews[r]

\* C17 witness: a Delete Review has removed a review and the store still holds
\* another review of the same business and another review by the same user.
C17_Witness ==
    /\ Returned("delete_review")
    /\ last.status = 204
    /\ LET gone == pre.reviews[last.req.id] IN
         /\ \E r \in DOMAIN reviews :
                reviews[r].business_id = gone.business_id /\ reviews[r].user_id # gone.user_id
         /\ \E r \in DOMAIN reviews :
                reviews[r].user_id = gone.user_id /\ reviews[r].business_id # gone.business_id

\* C18: a Business that has been deleted stays absent: a Business id that the
\* store has handed out and that is not in the store is not in the store after
\* any step, also when a Replace Business of it read the Business before the
\* Delete Business and puts after it (so Get Business keeps returning 404).
C18_DeletedBusinessStaysAbsent ==
    [][\A b \in BusinessIds :
        (b < nextBid /\ b \notin DOMAIN businesses) => b \notin DOMAIN businesses']_vars

\* C19: the put of a Replace Review whose body has no review_text leaves the
\* stored review_text of that Review as it is at that moment, present or
\* absent, also when another Replace of the same Review stored a review_text
\* after this one read the Review.
C19_OmittedTextUntouched ==
    [][\A p \in Procs :
        (/\ Calls(p, "edit_review_put")
         /\ "review_text" \notin DOMAIN req[p].content
         /\ req[p].id \in DOMAIN reviews) =>
            LET old == reviews[req[p].id]
                new == Get(reviews', req[p].id)
            IN  /\ "review_text" \in DOMAIN new <=> "review_text" \in DOMAIN old
                /\ "review_text" \in DOMAIN old => new.review_text = old.review_text]_vars

\* C20: no step removes the review_text of a Review that stays in the store,
\* and the response of a Get Review or of a Replace Review, and every entry of
\* a List By User, has review_text exactly when the stored Review has it.
C20_TextStaysPresent ==
    [][/\ \A i \in DOMAIN reviews \cap DOMAIN reviews' :
            "review_text" \in DOMAIN reviews[i] => "review_text" \in DOMAIN reviews'[i]
       /\ (last'.status = 200 /\ last'.req.op \in {"get_review", "edit_review"}) =>
            /\ last'.req.id \in DOMAIN reviews'
            /\ "review_text" \in DOMAIN last'.body
                    <=> "review_text" \in DOMAIN reviews'[last'.req.id]
       /\ (last'.status = 200 /\ last'.req.op = "list_user_reviews") =>
            \A e \in last'.body :
                /\ e.id \in DOMAIN reviews'
                /\ "review_text" \in DOMAIN e <=> "review_text" \in DOMAIN reviews'[e.id]]_vars

====
